---- MODULE Spec2Model ----
(***************************************************************************)
(* Model of src/src/index.ts: the 'query' handler of the multi-translate   *)
(* plugin (preconditions, quick select, prompt parsing, debounce, the      *)
(* per-service fan-out joined by Promise.all), alone and with several      *)
(* queries in flight, and the pure function parsePrompt.                   *)
(*                                                                         *)
(* Strings are sequences of characters; a character is a one-letter string *)
(* ("e", ">", " ", "\t") or the name of a code point ("U+4E2D").           *)
(***************************************************************************)
EXTENDS Integers, Sequences, FiniteSets, TLC

VARIABLES
    axiosInstance,  \* index.ts:30   the shared HTTP client: NullInstance, or the
                    \*               number of the createAxiosInstance call that made it
    created,        \* number of createAxiosInstance calls made so far
    pc,             \* per query: where its handler stands
    branch,         \* per query: the return statement its handler left by
    prompt,         \* per query: the prompt of the query event
    settings,       \* per query: parseSettings(rawSettings)
    locals,         \* per query: sourceLanguageCode, targetLanguageCode, text (index.ts:105)
    tasks,          \* per query: translatePromises, one entry per configured name
    settled,        \* per query: the indexes of the translate calls, in completion order
    calls,          \* per query: the service.translate calls issued, in issue order
    response,       \* per query: the items given to flow.add and response.add, in order
    parseIn,        \* the arguments of a direct call of parsePrompt
    parseOut        \* its return value

vars == <<axiosInstance, created, pc, branch, prompt, settings, locals, tasks,
          settled, calls, response, parseIn, parseOut>>

handlerVars == <<axiosInstance, created, pc, branch, prompt, settings, locals,
                 tasks, settled, calls, response>>

parseVars == <<parseIn, parseOut>>

----------------------------------------------------------------------------
(* Bounds of the model *)

MaxServices == 2    \* longest configured service list
MaxConfigured == 3  \* most entries the service list and the pair list hold together
MaxQueries == 2     \* most queries in flight together
MaxPieces == 4      \* most pieces a prompt given to parsePrompt is built from

----------------------------------------------------------------------------
(* Characters and JavaScript string primitives *)

LowerAlpha ==
    {"a", "b", "c", "d", "e", "f", "g", "h", "i", "j", "k", "l", "m",
     "n", "o", "p", "q", "r", "s", "t", "u", "v", "w", "x", "y", "z"}

\* the class [a-z_] of the three prefix patterns
CodeChars == LowerAlpha \cup {"_"}

\* what String.prototype.trim strips (the members the model's prompts use):
\* space, tab, ideographic space
WhiteSpace == {" ", "\t", "U+3000"}

\* the class [一-龥] (the members the model's prompts use)
CJKIdeographs == {"U+4E2D", "U+6587"}

SetMin(S) == CHOOSE x \in S : \A y \in S : x <= y

SetMax(S) == CHOOSE x \in S : \A y \in S : x >= y

\* s.indexOf(c): the 0-based index of the first c, -1 when there is none
IndexOf(s, c) ==
    LET hits == {i \in 1..Len(s) : s[i] = c}
    IN  IF hits = {} THEN -1 ELSE SetMin(hits) - 1

\* s.substring(from, to), 0-based, to exclusive
Substring(s, from, to) == SubSeq(s, from + 1, to)

\* s.substring(from)
SubstringFrom(s, from) == SubSeq(s, from + 1, Len(s))

\* s.trim()
Trim(s) ==
    LET keep == {i \in 1..Len(s) : s[i] \notin WhiteSpace}
    IN  IF keep = {} THEN <<>> ELSE SubSeq(s, SetMin(keep), SetMax(keep))

\* the length of the longest run of [a-z_] that starts at 1-based position from
RECURSIVE CodeRun(_, _)
CodeRun(s, from) ==
    IF from <= Len(s) /\ s[from] \in CodeChars
    THEN 1 + CodeRun(s, from + 1)
    ELSE 0

\* /[一-龥]/.test(s)
HasCJK(s) == \E i \in 1..Len(s) : s[i] \in CJKIdeographs

\* s.split('>'): the fields between the '>' characters
RECURSIVE Split(_)
Split(s) ==
    LET i == IndexOf(s, ">")
    IN  IF i = -1
        THEN <<s>>
        ELSE <<Substring(s, 0, i)>> \o Split(SubstringFrom(s, i + 1))

----------------------------------------------------------------------------
(* The language table (./service/language, not among the source files) *)

EN == <<"e", "n">>
ZH == <<"z", "h">>
JA == <<"j", "a">>
XX == <<"x", "x">>
AUTO == <<"a", "u", "t", "o">>

\* the valid codes; the sentinel auto is not one of them
languageCodesArr == {EN, ZH, JA}

\* the codes that have display names: languageNamesMap[c] === undefined otherwise
languageNamesMap == [c \in {EN, ZH, JA} |-> [name |-> c]]

IsLanguageCode(c) == c \in languageCodesArr

HasLanguageName(c) == c \in DOMAIN languageNamesMap

----------------------------------------------------------------------------
(* parsePrompt, index.ts:162-244 *)

NoMatch == [matched |-> FALSE, g1 |-> <<>>, g2 |-> <<>>]

\* prefix.match(/^([a-z_]+)>([a-z_]+)$/)
Match1(prefix) ==
    LET k == CodeRun(prefix, 1)
        m == CodeRun(prefix, k + 2)
    IN  IF /\ k >= 1
           /\ k + 1 <= Len(prefix)
           /\ prefix[k + 1] = ">"
           /\ m >= 1
           /\ k + 1 + m = Len(prefix)
        THEN [matched |-> TRUE,
              g1 |-> SubSeq(prefix, 1, k),
              g2 |-> SubSeq(prefix, k + 2, Len(prefix))]
        ELSE NoMatch

\* prefix.match(/^([a-z_]+)>$/)
Match2(prefix) ==
    LET k == CodeRun(prefix, 1)
    IN  IF /\ k >= 1
           /\ k + 1 = Len(prefix)
           /\ prefix[k + 1] = ">"
        THEN [matched |-> TRUE, g1 |-> SubSeq(prefix, 1, k), g2 |-> <<>>]
        ELSE NoMatch

\* prefix.match(/^>?([a-z_]+)$/)
Match3(prefix) ==
    LET from == IF Len(prefix) >= 1 /\ prefix[1] = ">" THEN 2 ELSE 1
        k == CodeRun(prefix, from)
    IN  IF k >= 1 /\ from + k - 1 = Len(prefix)
        THEN [matched |-> TRUE, g1 |-> SubSeq(prefix, from, Len(prefix)), g2 |-> <<>>]
        ELSE NoMatch

Parsed(s, t, x) == [sourceLanguageCode |-> s, targetLanguageCode |-> t, text |-> x]

\* index.ts:175: prefix too long seems like a text
PrefixLimit == 15

\* a default case that returns the remainder instead of the whole prompt
DefaultCaseKeepsRest(p, oldS, oldT, rest) == Parsed(oldS, oldT, rest)

\* index.ts:238-243
DefaultCase(p, oldS, oldT, rest) == Parsed(oldS, oldT, p)

\* a third pattern whose '>' is not optional: /^>([a-z_]+)$/
Part3NeedsArrow(p, prefix, rest, oldS, oldT) ==
    LET m == Match3(prefix)
    IN  IF m.matched /\ IsLanguageCode(m.g1) /\ prefix[1] = ">"
        THEN Parsed(oldS, m.g1, rest)
        ELSE DefaultCase(p, oldS, oldT, rest)

\* index.ts:225-236, then the default case
Part3(p, prefix, rest, oldS, oldT) ==
    LET m == Match3(prefix)
    IN  IF m.matched /\ IsLanguageCode(m.g1)
        THEN Parsed(oldS, m.g1, rest)
        ELSE DefaultCase(p, oldS, oldT, rest)

\* index.ts:211-223
Part2(p, prefix, rest, oldS, oldT) ==
    LET m == Match2(prefix)
    IN  IF m.matched /\ IsLanguageCode(m.g1)
        THEN Parsed(m.g1, oldT, rest)
        ELSE Part3(p, prefix, rest, oldS, oldT)

\* index.ts:198-209
Part1(p, prefix, rest, oldS, oldT) ==
    LET m == Match1(prefix)
    IN  IF m.matched /\ IsLanguageCode(m.g1) /\ IsLanguageCode(m.g2)
        THEN Parsed(m.g1, m.g2, rest)
        ELSE Part2(p, prefix, rest, oldS, oldT)

parsePrompt(p, oldS, oldT) ==
    LET spaceIndex == IndexOf(p, " ")
        prefix == IF spaceIndex = -1 THEN p ELSE Substring(p, 0, spaceIndex)
        rest == IF spaceIndex = -1 THEN <<>> ELSE Trim(SubstringFrom(p, spaceIndex + 1))
    IN  IF spaceIndex > PrefixLimit
        THEN Parsed(oldS, oldT, p)
        ELSE Part1(p, prefix, rest, oldS, oldT)

----------------------------------------------------------------------------
(* The service registry (./service, not among the source files) *)

Undefined == <<"undefined">>

\* the registered services and the language codes each one's languagesMap holds
servicesData ==
    [google |-> {EN, ZH, JA},
     youdao |-> {EN, ZH},
     deepl  |-> {EN, JA}]

\* a configured name may also be one the registry does not hold
ServiceNames == DOMAIN servicesData \cup {"nosuch"}

IsRegistered(name) == name \in DOMAIN servicesData

\* service.languagesMap[code]: the service's own code, or undefined
ServiceCode(name, code) ==
    IF code \in servicesData[name] THEN code \o <<"-", name>> ELSE Undefined

----------------------------------------------------------------------------
(* Result items, index.ts:42-46, 51-55, 60-64, 84-98, 107-111, 145-150 *)

NoResult == [kind |-> "none", message |-> "", by |-> "", text |-> <<>>,
             from |-> <<>>, to |-> <<>>]

\* a localized message used as a result string, index.ts:124
MessageResult(key) == [NoResult EXCEPT !.kind = "message", !.message = key]

\* the string a successful service.translate(text, from, to, ...) resolves to
Translation(name, text, from, to) ==
    [kind |-> "translation", message |-> "", by |-> name, text |-> text,
     from |-> from, to |-> to]

NoAction == [method |-> "none", query |-> <<>>]

Item(ico, message, source, target, name, result, action) ==
    [icoPath |-> ico, message |-> message, source |-> source, target |-> target,
     name |-> name, result |-> result, jsonRPCAction |-> action]

\* index.ts:42-46
NoServicesItem == Item("warning", "noServicesConfigured", <<>>, <<>>, "", NoResult, NoAction)

\* index.ts:51-55
UnsupportedSourceItem(code) ==
    Item("warning", "unsupportedSourceLanguage", code, <<>>, "", NoResult, NoAction)

\* index.ts:60-64
UnsupportedTargetItem(code) ==
    Item("warning", "unsupportedTargetLanguage", <<>>, code, "", NoResult, NoAction)

\* index.ts:84-88 and 107-111
DefaultSelectedItem(source, target) ==
    Item("info", "defaultSelected", source, target, "", NoResult, NoAction)

\* index.ts:93-98
QuickSelectItem(source, target, pair, triggerKeyword) ==
    Item("info", "quickSelect", source, target, "", NoResult,
         [method |-> "changeQuery", query |-> triggerKeyword \o <<" ">> \o pair \o <<" ">>])

\* index.ts:145-150
ResultItem(name, result, source, target) ==
    Item(name, "", source, target, name, result, [method |-> "copy", query |-> <<>>])

----------------------------------------------------------------------------
(* The inputs of a query *)

Queries == {"q1"}

SeqsUpTo(S, n) == UNION {[1..k -> S] : k \in 0..n}

\* settings.services: absent, or a list of configured names
ServiceLists ==
    {[present |-> FALSE, list |-> <<>>]}
        \cup {[present |-> TRUE, list |-> l] : l \in SeqsUpTo(ServiceNames, MaxServices)}

\* configured pair strings: two valid pairs (one written with spaces around
\* '>'), a pair with an invalid code, a single code, three codes
PairStrings ==
    {<<"e", "n", ">", "z", "h">>,
     <<"j", "a", " ", ">", " ", "e", "n">>,
     <<"x", "x", ">", "e", "n">>,
     <<"z", "h">>,
     <<"e", "n", ">", "z", "h", ">", "j", "a">>}

PairLists == SeqsUpTo(PairStrings, MaxConfigured)

TriggerKeyword == <<"t", "r">>

SettingsSet ==
    {st \in [services : ServiceLists,
             sourceLanguageCode : {EN, XX},
             targetLanguageCode : {ZH, AUTO, XX},
             languagePairs : PairLists,
             triggerKeyword : {TriggerKeyword}] :
        Len(st.services.list) + Len(st.languagePairs) <= MaxConfigured}

\* the prompts of the queries: an optional prefix, an optional space, a text
QueryPrefixes ==
    {<<>>, JA, JA \o <<">">>, EN \o <<">">> \o JA, <<">">> \o ZH}

QueryTexts == {<<>>, <<"h", "i">>, <<"U+4E2D">>}

QueryPrompts ==
    {pre \o sep \o txt : pre \in QueryPrefixes, sep \in {<<>>, <<" ">>}, txt \in QueryTexts}

----------------------------------------------------------------------------
(* The handler up to its first await, index.ts:33-116 *)

NoLocals == Parsed(<<>>, <<>>, <<>>)

\* a guard that tests only for the absent list
NoServicesOnlyWhenAbsent(st) == ~st.services.present

\* index.ts:41
NoServicesConfigured(st) == ~st.services.present \/ Len(st.services.list) = 0

\* the guards with the target tested before the source
PreconditionsTargetFirst(st) ==
    IF NoServicesConfigured(st) THEN "noServices"
    ELSE IF ~HasLanguageName(st.targetLanguageCode) THEN "unsupportedTarget"
    ELSE IF ~HasLanguageName(st.sourceLanguageCode) THEN "unsupportedSource"
    ELSE "ok"

\* index.ts:40-66: the first guard that returns, or "ok"
Preconditions(st) ==
    IF NoServicesConfigured(st) THEN "noServices"
    ELSE IF ~HasLanguageName(st.sourceLanguageCode) THEN "unsupportedSource"
    ELSE IF ~HasLanguageName(st.targetLanguageCode) THEN "unsupportedTarget"
    ELSE "ok"

\* index.ts:42-46, 51-55, 60-64: the item of the guard that returned
PreconditionItem(guard, st) ==
    CASE guard = "noServices" -> NoServicesItem
      [] guard = "unsupportedSource" -> UnsupportedSourceItem(st.sourceLanguageCode)
      [] guard = "unsupportedTarget" -> UnsupportedTargetItem(st.targetLanguageCode)

\* a condition on the parsed text instead of the prompt
QuickSelectOnEmptyText(p, st) ==
    /\ Len(st.languagePairs) > 0
    /\ Len(Trim(parsePrompt(p, st.sourceLanguageCode, st.targetLanguageCode).text)) = 0

\* index.ts:69-73
QuickSelectCondition(p, st) == Len(st.languagePairs) > 0 /\ Len(Trim(p)) = 0

\* index.ts:76 and 90: const [source, target] = pair.split('>').map(i => i.trim())
PairFields(pair) ==
    LET f == Split(pair)
    IN  [source |-> Trim(f[1]),
         target |-> IF Len(f) >= 2 THEN Trim(f[2]) ELSE Undefined]

\* index.ts:77-80
IsValidPair(pair) ==
    IsLanguageCode(PairFields(pair).source) /\ IsLanguageCode(PairFields(pair).target)

\* index.ts:75-81
validPairs(pairs) == SelectSeq(pairs, IsValidPair)

\* index.ts:83-100
QuickSelectItems(st) ==
    LET vp == validPairs(st.languagePairs)
    IN  <<DefaultSelectedItem(st.sourceLanguageCode, st.targetLanguageCode)>>
            \o [i \in 1..Len(vp) |->
                    QuickSelectItem(PairFields(vp[i]).source, PairFields(vp[i]).target,
                                    vp[i], st.triggerKeyword)]

\* index.ts:106
IsEmptyText(text) == Len(text) = 0 \/ Len(Trim(text)) = 0

\* an item that shows the configured pair instead of the parsed one
EmptyTextItemsFromSettings(parsed, st) ==
    <<DefaultSelectedItem(st.sourceLanguageCode, st.targetLanguageCode)>>

\* index.ts:107-111
EmptyTextItems(parsed, st) ==
    <<DefaultSelectedItem(parsed.sourceLanguageCode, parsed.targetLanguageCode)>>

\* index.ts:33-116: where the handler stands when it first returns or suspends
HandleQuery(p, st) ==
    LET guard == Preconditions(st)
        parsed == parsePrompt(p, st.sourceLanguageCode, st.targetLanguageCode)
    IN  IF guard # "ok"
        THEN [pc |-> "done", branch |-> guard, locals |-> NoLocals,
              response |-> <<PreconditionItem(guard, st)>>]
        ELSE IF QuickSelectCondition(p, st)
        THEN [pc |-> "done", branch |-> "quickSelect", locals |-> NoLocals,
              response |-> QuickSelectItems(st)]
        ELSE IF IsEmptyText(parsed.text)
        THEN [pc |-> "done", branch |-> "emptyText", locals |-> parsed,
              response |-> EmptyTextItems(parsed, st)]
        ELSE [pc |-> "debounce", branch |-> "none", locals |-> parsed,
              response |-> <<>>]

----------------------------------------------------------------------------
(* The fan-out, index.ts:119-139 *)

\* index.ts:127-130: the value of targetLanguageCode after the fallback
FallbackTarget(name, target, text) ==
    IF target = AUTO \/ ServiceCode(name, target) = Undefined
    THEN (IF HasCJK(text) THEN EN ELSE ZH)
    ELSE target

NoCall == <<>>

Task(state, name, result) == [state |-> state, name |-> name, result |-> result]

\* a task that calls the service whether or not it supports the source
StartTaskWithoutSourceCheck(i, name, source, target, text, client) ==
    IF ~IsRegistered(name)
    THEN [task |-> Task("null", name, NoResult), target |-> target, issued |-> NoCall]
    ELSE LET t == FallbackTarget(name, target, text)
         IN  [task |-> Task("pending", name, NoResult),
              target |-> t,
              issued |-> <<[index |-> i, name |-> name, text |-> text,
                            source |-> ServiceCode(name, source),
                            target |-> ServiceCode(name, t),
                            targetLanguageCode |-> t,
                            client |-> client]>>]

\* index.ts:119-137: one task, run up to its return or to its await of
\* service.translate; target is the shared targetLanguageCode as the task finds it
StartTask(i, name, source, target, text, client) ==
    IF ~IsRegistered(name)
    THEN [task |-> Task("null", name, NoResult), target |-> target, issued |-> NoCall]
    ELSE IF ServiceCode(name, source) = Undefined
    THEN [task |-> Task("value", name, MessageResult("unsupportedSourceLanguage")),
          target |-> target, issued |-> NoCall]
    ELSE LET t == FallbackTarget(name, target, text)
         IN  [task |-> Task("pending", name, NoResult),
              target |-> t,
              issued |-> <<[index |-> i, name |-> name, text |-> text,
                            source |-> ServiceCode(name, source),
                            target |-> ServiceCode(name, t),
                            targetLanguageCode |-> t,
                            client |-> client]>>]

\* tasks that each start from the target the query resolved to
RECURSIVE StartTasksFromResolvedTarget(_, _, _, _, _, _)
StartTasksFromResolvedTarget(names, i, source, acc, text, client) ==
    IF i > Len(names)
    THEN acc
    ELSE LET r == StartTask(i, names[i], source, acc.target, text, client)
         IN  StartTasksFromResolvedTarget(names, i + 1, source,
                        [tasks |-> Append(acc.tasks, r.task),
                         target |-> acc.target,
                         calls |-> acc.calls \o r.issued],
                        text, client)

\* index.ts:119: settings.services.map(...) starts the tasks in list order,
\* each one reading and writing the one targetLanguageCode
RECURSIVE StartTasks(_, _, _, _, _, _)
StartTasks(names, i, source, acc, text, client) ==
    IF i > Len(names)
    THEN acc
    ELSE LET r == StartTask(i, names[i], source, acc.target, text, client)
         IN  StartTasks(names, i + 1, source,
                        [tasks |-> Append(acc.tasks, r.task),
                         target |-> r.target,
                         calls |-> acc.calls \o r.issued],
                        text, client)

\* a join that collects the results as they arrive
PromiseAllAsSettled(ts, order) ==
    SelectSeq(ts, LAMBDA t : t.state \in {"null", "value"})
        \o [k \in 1..Len(order) |-> ts[order[k]]]

\* index.ts:141: the value Promise.all resolves to, in the order of the promises
PromiseAll(ts, order) == ts

\* items built from every entry of the results, the null ones included
ResponseItemsOfEveryName(results, source, target) ==
    [i \in 1..Len(results) |->
        ResultItem(results[i].name, results[i].result, source, target)]

\* index.ts:142-151
ResponseItems(results, source, target) ==
    LET kept == SelectSeq(results, LAMBDA t : t.state # "null")
    IN  [i \in 1..Len(kept) |-> ResultItem(kept[i].name, kept[i].result, source, target)]

----------------------------------------------------------------------------
(* The state machine of the query handler *)

NoSettings ==
    [services |-> [present |-> FALSE, list |-> <<>>],
     sourceLanguageCode |-> <<>>,
     targetLanguageCode |-> <<>>,
     languagePairs |-> <<>>,
     triggerKeyword |-> <<>>]

NoParseIn == [prompt |-> <<>>, oldSource |-> <<>>, oldTarget |-> <<>>]

NoParseOut == [returned |-> FALSE, value |-> NoLocals]

\* index.ts:30: let axiosInstance = null
NullInstance == 0

\* a handler that creates its own client whenever a query arrives
CreateAxiosInstancePerQuery(instance, n) ==
    [axiosInstance |-> n + 1, created |-> n + 1]

\* index.ts:36-38: the client is created when the shared variable holds none;
\* n is the number of createAxiosInstance calls made before
EnsureAxiosInstance(instance, n) ==
    IF instance = NullInstance
    THEN [axiosInstance |-> n + 1, created |-> n + 1]
    ELSE [axiosInstance |-> instance, created |-> n]

\* a debounce that clears the timer of the queries still waiting in theirs
ClearOlderTimers(pcs, q) ==
    [x \in DOMAIN pcs |-> IF x # q /\ pcs[x] = "debounce" THEN "done" ELSE pcs[x]]

\* index.ts:32-116: the handler keeps no timer handle and no record of the
\* queries in flight: the arrival of query q leaves every other handler where
\* it stands
InFlightAfterArrival(pcs, q) == pcs

InitHandlerFor(Q) ==
    /\ axiosInstance = NullInstance
    /\ created = 0
    /\ pc = [q \in Q |-> "idle"]
    /\ branch = [q \in Q |-> "none"]
    /\ prompt = [q \in Q |-> <<>>]
    /\ settings = [q \in Q |-> NoSettings]
    /\ locals = [q \in Q |-> NoLocals]
    /\ tasks = [q \in Q |-> <<>>]
    /\ settled = [q \in Q |-> <<>>]
    /\ calls = [q \in Q |-> <<>>]
    /\ response = [q \in Q |-> <<>>]

InitHandler == InitHandlerFor(Queries)

Init ==
    /\ InitHandler
    /\ parseIn = NoParseIn
    /\ parseOut = NoParseOut

\* index.ts:32-116: the handler of query q, given prompt p and settings st,
\* runs to its first return or to the debounce timer
Arrive(q, p, st) ==
    /\ LET r == HandleQuery(p, st)
           a == EnsureAxiosInstance(axiosInstance, created)
       IN  /\ prompt' = [prompt EXCEPT ![q] = p]
           /\ settings' = [settings EXCEPT ![q] = st]
           /\ pc' = [InFlightAfterArrival(pc, q) EXCEPT ![q] = r.pc]
           /\ branch' = [branch EXCEPT ![q] = r.branch]
           /\ locals' = [locals EXCEPT ![q] = r.locals]
           /\ response' = [response EXCEPT ![q] = r.response]
           /\ axiosInstance' = a.axiosInstance
           /\ created' = a.created
    /\ UNCHANGED <<tasks, settled, calls, parseIn, parseOut>>

\* a query event with any prompt and any settings
Query(q) ==
    /\ pc[q] = "idle"
    /\ \E p \in QueryPrompts, st \in SettingsSet : Arrive(q, p, st)

\* index.ts:116-141: the timer fires, the tasks are started in list order and
\* the handler awaits Promise.all
Dispatch(q) ==
    /\ pc[q] = "debounce"
    /\ LET r == StartTasks(settings[q].services.list, 1, locals[q].sourceLanguageCode,
                           [tasks |-> <<>>, target |-> locals[q].targetLanguageCode,
                            calls |-> <<>>],
                           locals[q].text, axiosInstance)
       IN  /\ tasks' = [tasks EXCEPT ![q] = r.tasks]
           /\ calls' = [calls EXCEPT ![q] = r.calls]
           /\ locals' = [locals EXCEPT ![q].targetLanguageCode = r.target]
    /\ pc' = [pc EXCEPT ![q] = "awaiting"]
    /\ UNCHANGED <<axiosInstance, created, branch, prompt, settings, settled,
                   response, parseIn, parseOut>>

\* the call of task i, as issued
CallOf(q, i) == CHOOSE c \in {calls[q][k] : k \in 1..Len(calls[q])} : c.index = i

\* index.ts:131-138: service.translate resolves and the task returns { result, name }
TranslateResolves(q, i) ==
    /\ tasks[q][i].state = "pending"
    /\ LET c == CallOf(q, i)
       IN  tasks' = [tasks EXCEPT ![q][i].state = "fulfilled",
                                  ![q][i].result = Translation(c.name, c.text, c.source, c.target)]
    /\ settled' = [settled EXCEPT ![q] = Append(@, i)]
    /\ UNCHANGED <<axiosInstance, created, pc, branch, prompt, settings, locals,
                   calls, response, parseIn, parseOut>>

\* index.ts:131: service.translate rejects (or throws) and so does the task
TranslateRejects(q, i) ==
    /\ tasks[q][i].state = "pending"
    /\ tasks' = [tasks EXCEPT ![q][i].state = "rejected"]
    /\ settled' = [settled EXCEPT ![q] = Append(@, i)]
    /\ UNCHANGED <<axiosInstance, created, pc, branch, prompt, settings, locals,
                   calls, response, parseIn, parseOut>>

\* index.ts:141-153: every task has returned; the items are built and added
AllResolved(q) ==
    /\ pc[q] = "awaiting"
    /\ \A i \in 1..Len(tasks[q]) : tasks[q][i].state \in {"null", "value", "fulfilled"}
    /\ response' = [response EXCEPT ![q] =
                        ResponseItems(PromiseAll(tasks[q], settled[q]),
                                      locals[q].sourceLanguageCode,
                                      locals[q].targetLanguageCode)]
    /\ pc' = [pc EXCEPT ![q] = "done"]
    /\ branch' = [branch EXCEPT ![q] = "translated"]
    /\ UNCHANGED <<axiosInstance, created, prompt, settings, locals, tasks, settled,
                   calls, parseIn, parseOut>>

\* index.ts:141: a task has rejected, so Promise.all rejects and the handler
\* throws out of the await: nothing after it runs
SomeRejected(q) ==
    /\ pc[q] = "awaiting"
    /\ \E i \in 1..Len(tasks[q]) : tasks[q][i].state = "rejected"
    /\ pc' = [pc EXCEPT ![q] = "rejected"]
    /\ branch' = [branch EXCEPT ![q] = "rejected"]
    /\ UNCHANGED <<axiosInstance, created, prompt, settings, locals, tasks, settled,
                   calls, response, parseIn, parseOut>>

Next ==
    \E q \in Queries :
        \/ Query(q)
        \/ Dispatch(q)
        \/ \E i \in 1..Len(tasks[q]) : TranslateResolves(q, i)
        \/ \E i \in 1..Len(tasks[q]) : TranslateRejects(q, i)
        \/ AllResolved(q)
        \/ SomeRejected(q)

Spec == Init /\ [][Next]_vars

----------------------------------------------------------------------------
(* Several queries in flight: the handler of one query runs from one await  *)
(* to the next without interruption, and the handlers of different queries *)
(* interleave at their awaits (index.ts:116 and index.ts:141)              *)

ConcurrentQueries == 1..MaxQueries

ConcurrentPrompts == {<<>>, <<"h", "i">>, JA \o <<">", " ", "h", "i">>}

ConcurrentSettings ==
    {[services |-> [present |-> TRUE, list |-> l],
      sourceLanguageCode |-> EN,
      targetLanguageCode |-> ZH,
      languagePairs |-> <<>>,
      triggerKeyword |-> TriggerKeyword] : l \in {<<"youdao", "google">>}}

InitConcurrent ==
    /\ InitHandlerFor(ConcurrentQueries)
    /\ parseIn = NoParseIn
    /\ parseOut = NoParseOut

QueryInFlight(q) ==
    /\ pc[q] = "idle"
    /\ \E p \in ConcurrentPrompts, st \in ConcurrentSettings : Arrive(q, p, st)

NextConcurrent ==
    \E q \in ConcurrentQueries :
        \/ QueryInFlight(q)
        \/ Dispatch(q)
        \/ \E i \in 1..Len(tasks[q]) : TranslateResolves(q, i)
        \/ \E i \in 1..Len(tasks[q]) : TranslateRejects(q, i)
        \/ AllResolved(q)
        \/ SomeRejected(q)

SpecConcurrent == InitConcurrent /\ [][NextConcurrent]_vars

\* index.ts:116: a timer that was set fires (the event loop runs every timer
\* whose delay has elapsed), so a handler waiting in its debounce resumes
SpecConcurrentFair ==
    SpecConcurrent /\ \A q \in ConcurrentQueries : WF_vars(Dispatch(q))

----------------------------------------------------------------------------
(* parsePrompt called directly on a prompt built from pieces *)

\* a word one letter longer than the longest prefix the length guard lets by
LongWord == [i \in 1..(PrefixLimit + 1) |-> "a"]

ParsePieces ==
    {EN, ZH, XX, <<">">>, <<" ">>, <<"\t">>, <<"U+4E2D">>, LongWord}

RECURSIVE Concat(_)
Concat(ps) == IF ps = <<>> THEN <<>> ELSE Head(ps) \o Concat(Tail(ps))

ParsePrompts == {Concat(ps) : ps \in SeqsUpTo(ParsePieces, MaxPieces)}

InitParse ==
    /\ InitHandler
    /\ parseIn \in [prompt : ParsePrompts, oldSource : {EN, JA}, oldTarget : {ZH, JA}]
    /\ parseOut = NoParseOut

CallParsePrompt ==
    /\ ~parseOut.returned
    /\ parseOut' = [returned |-> TRUE,
                    value |-> parsePrompt(parseIn.prompt, parseIn.oldSource, parseIn.oldTarget)]
    /\ UNCHANGED <<handlerVars, parseIn>>

NextParse == CallParsePrompt

SpecParse == InitParse /\ [][NextParse]_vars

----------------------------------------------------------------------------
(* The decision tree of section 4.1, stated on the prompt as a whole *)

\* the 0-based index of the first character of p that is in S, -1 when none is
FirstIndexIn(p, S) ==
    LET hits == {i \in 1..Len(p) : p[i] \in S}
    IN  IF hits = {} THEN -1 ELSE SetMin(hits) - 1

\* the text before the first separator (the whole prompt when there is none)
PrefixCandidate(p, S) ==
    IF FirstIndexIn(p, S) = -1 THEN p ELSE SubSeq(p, 1, FirstIndexIn(p, S))

\* the trimmed remainder (empty when there is no separator)
Remainder(p, S) ==
    IF FirstIndexIn(p, S) = -1 THEN <<>> ELSE Trim(SubSeq(p, FirstIndexIn(p, S) + 2, Len(p)))

IsFormA(pre) == \E s \in languageCodesArr, t \in languageCodesArr : pre = s \o <<">">> \o t

IsFormB(pre) == \E s \in languageCodesArr : pre = s \o <<">">>

IsFormC(pre) == \E t \in languageCodesArr : pre = t \/ pre = <<">">> \o t

\* forms A, B, C in this priority, else the whole prompt with the old codes
DecisionTree(p, oldS, oldT, S) ==
    LET pre == PrefixCandidate(p, S)
        rest == Remainder(p, S)
    IN  IF IsFormA(pre)
        THEN LET st == CHOOSE st \in languageCodesArr \X languageCodesArr :
                            pre = st[1] \o <<">">> \o st[2]
             IN  Parsed(st[1], st[2], rest)
        ELSE IF IsFormB(pre)
        THEN Parsed(CHOOSE s \in languageCodesArr : pre = s \o <<">">>, oldT, rest)
        ELSE IF IsFormC(pre)
        THEN Parsed(oldS, CHOOSE t \in languageCodesArr : pre = t \/ pre = <<">">> \o t, rest)
        ELSE Parsed(oldS, oldT, p)

\* C5 as stated: on every prompt whose first whitespace character is at index
\* at most 15, parsePrompt returns what the decision tree gives when the
\* prefix candidate is the text before the first whitespace character.
ParseFollowsWhitespaceTree ==
    (parseOut.returned /\ FirstIndexIn(parseIn.prompt, WhiteSpace) <= PrefixLimit)
        => parseOut.value =
             DecisionTree(parseIn.prompt, parseIn.oldSource, parseIn.oldTarget, WhiteSpace)

\* C5 amended: on every prompt whose first space character (U+0020) is at
\* index at most 15, parsePrompt returns what the decision tree gives when the
\* prefix candidate is the text before the first space character and rest is
\* the remainder trimmed of all whitespace; and a prompt '>' + code + ...
\* parses as the same prompt without its leading '>'.
ParseFollowsSpaceTree ==
    parseOut.returned =>
        /\ IndexOf(parseIn.prompt, " ") <= PrefixLimit
              => parseOut.value =
                   DecisionTree(parseIn.prompt, parseIn.oldSource, parseIn.oldTarget, {" "})
        /\ (/\ Len(parseIn.prompt) >= 1
            /\ parseIn.prompt[1] = ">"
            /\ PrefixCandidate(Tail(parseIn.prompt), {" "}) \in languageCodesArr)
              => parseOut.value =
                   parsePrompt(Tail(parseIn.prompt), parseIn.oldSource, parseIn.oldTarget)

\* C5 witness: parsePrompt has returned for a prompt 'code text' whose target
\* is taken from the prefix and whose text is the remainder
ParsedTargetOnlyPrefix ==
    /\ parseOut.returned
    /\ parseIn.prompt = ZH \o <<" ">> \o XX
    /\ parseIn.oldTarget = JA
    /\ parseOut.value = Parsed(parseIn.oldSource, ZH, XX)

\* C6: parsePrompt always returns a triple of two codes and a text, and when
\* the first whitespace is at index > 15, or the text before the first
\* whitespace is none of the forms A, B, C with valid codes, the triple is
\* (oldSource, oldTarget, the whole prompt).
ParseFallsBackToWholePrompt ==
    parseOut.returned =>
        /\ parseOut.value.sourceLanguageCode \in languageCodesArr \cup {parseIn.oldSource}
        /\ parseOut.value.targetLanguageCode \in languageCodesArr \cup {parseIn.oldTarget}
        /\ parseOut.value.text \in Seq(WhiteSpace \cup CodeChars \cup CJKIdeographs \cup {">"})
        /\ (\/ FirstIndexIn(parseIn.prompt, WhiteSpace) > PrefixLimit
            \/ LET pre == PrefixCandidate(parseIn.prompt, WhiteSpace)
               IN  ~IsFormA(pre) /\ ~IsFormB(pre) /\ ~IsFormC(pre))
              => parseOut.value = Parsed(parseIn.oldSource, parseIn.oldTarget, parseIn.prompt)

\* C6 witness: parsePrompt has returned the whole prompt for a prompt whose
\* first space is past index 15 and is followed by a valid prefix and a text
ParsedLongFirstWord ==
    /\ parseOut.returned
    /\ parseIn.prompt = LongWord \o <<" ">> \o ZH \o <<" ">>
    /\ parseOut.value.text = parseIn.prompt

----------------------------------------------------------------------------
(* The query handler's claims *)

\* the tasks of the configured names the registry holds, in list order
RegisteredTasks(q) == SelectSeq(tasks[q], LAMBDA t : t.state # "null")

Blank(str) == \A i \in 1..Len(str) : str[i] \in WhiteSpace

\* the three preconditions of section 4.3, each on its own
FailsNoServices(st) == ~st.services.present \/ st.services.list = <<>>

FailsSource(st) == st.sourceLanguageCode \notin DOMAIN languageNamesMap

FailsTarget(st) == st.targetLanguageCode \notin DOMAIN languageNamesMap

PassesPreconditions(st) == ~FailsNoServices(st) /\ ~FailsSource(st) /\ ~FailsTarget(st)

\* what parsePrompt makes of the query's prompt and configured codes
ParsedOf(q) ==
    parsePrompt(prompt[q], settings[q].sourceLanguageCode, settings[q].targetLanguageCode)

\* C1: once the handler of a dispatched query has ended and every translate
\* call has completed, the response holds one item per registered service, in
\* its slot: the service's result when its call did not fail, an error notice
\* bearing the service's name when it failed.
FailuresAreIsolated ==
    \A q \in Queries :
        (/\ pc[q] \in {"done", "rejected"}
         /\ Len(tasks[q]) > 0
         /\ \A i \in 1..Len(tasks[q]) : tasks[q][i].state # "pending")
            => LET reg == RegisteredTasks(q)
               IN  /\ Len(response[q]) = Len(reg)
                   /\ \A k \in 1..Len(reg) :
                         /\ response[q][k].name = reg[k].name
                         /\ IF reg[k].state = "rejected"
                            THEN response[q][k].result.kind = "message"
                            ELSE response[q][k].result = reg[k].result

\* C2: the items of a translated response are those of the configured names
\* the registry holds, one each, in the order of the configured list, each
\* with its own service's result, whatever order the calls completed in.
ResultsInServiceOrder ==
    \A q \in Queries :
        branch[q] = "translated"
            => LET names == SelectSeq(settings[q].services.list,
                                      LAMBDA n : n \in DOMAIN servicesData)
               IN  /\ Len(response[q]) = Len(names)
                   /\ \A k \in 1..Len(names) :
                         /\ response[q][k].name = names[k]
                         /\ response[q][k].result.kind = "translation"
                              => response[q][k].result.by = names[k]

\* C2 witness: a response of two different services' translations whose
\* second call completed before its first
RespondedAfterReverseCompletion ==
    \E q \in Queries :
        /\ branch[q] = "translated"
        /\ settled[q] = <<2, 1>>
        /\ Len(response[q]) = 2
        /\ response[q][1].name # response[q][2].name

\* C3: a query whose service list is absent or empty ends with exactly the
\* 'no services configured' item and without a translate call or a task.
NoServicesGivesOneNotice ==
    \A q \in Queries :
        (pc[q] # "idle" /\ FailsNoServices(settings[q]))
            => /\ pc[q] = "done"
               /\ response[q] = <<NoServicesItem>>
               /\ calls[q] = <<>>
               /\ tasks[q] = <<>>

\* C3 witness: the notice for an empty (not absent) list, with a prompt that
\* has a text, valid codes and configured pairs
NoticedEmptyServiceList ==
    \E q \in Queries :
        /\ pc[q] = "done"
        /\ settings[q].services.present
        /\ settings[q].services.list = <<>>
        /\ ~FailsSource(settings[q]) /\ ~FailsTarget(settings[q])
        /\ Len(settings[q].languagePairs) > 0
        /\ ~Blank(ParsedOf(q).text)
        /\ response[q] = <<NoServicesItem>>

\* C4: a query with services, a valid source, a text and the target auto
\* (not overridden by a prefix) issues translate calls once its debounce is
\* over, each with the target en when the text has a CJK ideograph and zh
\* otherwise.
AutoTargetReachesTranslate ==
    \A q \in Queries :
        (/\ pc[q] \notin {"idle", "debounce"}
         /\ ~FailsNoServices(settings[q])
         /\ ~FailsSource(settings[q])
         /\ settings[q].targetLanguageCode = AUTO
         /\ ParsedOf(q).targetLanguageCode = AUTO
         /\ ~Blank(ParsedOf(q).text)
         /\ \E i \in 1..Len(settings[q].services.list) :
               /\ settings[q].services.list[i] \in DOMAIN servicesData
               /\ ParsedOf(q).sourceLanguageCode \in servicesData[settings[q].services.list[i]])
            => /\ calls[q] # <<>>
               /\ \A k \in 1..Len(calls[q]) :
                     calls[q][k].targetLanguageCode =
                         IF \E i \in 1..Len(ParsedOf(q).text) :
                                ParsedOf(q).text[i] \in CJKIdeographs
                         THEN EN ELSE ZH

\* a configured entry that is a pair of exactly two valid codes, with
\* optional whitespace around the '>'
IsPairOfTwoCodes(pair) ==
    /\ Len(Split(pair)) = 2
    /\ Trim(Split(pair)[1]) \in languageCodesArr
    /\ Trim(Split(pair)[2]) \in languageCodesArr

\* C7: a quick-select list is the item of the configured default pair, then
\* one item for each configured entry that is a pair of exactly two valid
\* codes, in configured order, and nothing else.
QuickSelectListsPairsOfTwoCodes ==
    \A q \in Queries :
        branch[q] = "quickSelect"
            => LET good == SelectSeq(settings[q].languagePairs, IsPairOfTwoCodes)
               IN  response[q] =
                     <<DefaultSelectedItem(settings[q].sourceLanguageCode,
                                           settings[q].targetLanguageCode)>>
                     \o [i \in 1..Len(good) |->
                            QuickSelectItem(Trim(Split(good[i])[1]), Trim(Split(good[i])[2]),
                                            good[i], settings[q].triggerKeyword)]

\* C8 as stated: a query that passes the preconditions is answered with the
\* quick-select list exactly when a pair is configured and its parsed text is
\* empty (an empty prompt or a prompt of only a prefix), and then without a
\* translate call.
QuickSelectWhenParsedTextEmpty ==
    \A q \in Queries :
        (pc[q] # "idle" /\ PassesPreconditions(settings[q]))
            => /\ branch[q] = "quickSelect"
                    <=> (Len(settings[q].languagePairs) > 0 /\ Blank(ParsedOf(q).text))
               /\ branch[q] = "quickSelect" => calls[q] = <<>>

\* C8 amended: a query is answered with the quick-select list exactly when it
\* passes the three preconditions, a pair is configured and the prompt is
\* empty or only whitespace; a prompt of only a language prefix is answered
\* with the single item of the parsed pair; neither issues a translate call.
QuickSelectWhenPromptBlank ==
    \A q \in Queries :
        pc[q] # "idle"
            => /\ branch[q] = "quickSelect"
                    <=> (/\ PassesPreconditions(settings[q])
                         /\ Len(settings[q].languagePairs) > 0
                         /\ Blank(prompt[q]))
               /\ branch[q] = "quickSelect"
                    => pc[q] = "done" /\ calls[q] = <<>> /\ tasks[q] = <<>>
               /\ (/\ PassesPreconditions(settings[q])
                   /\ ~Blank(prompt[q])
                   /\ Blank(ParsedOf(q).text))
                    => /\ branch[q] = "emptyText"
                       /\ Len(response[q]) = 1
                       /\ calls[q] = <<>>

\* C8 witness: a quick-select list with a suggestion, given for a prompt of
\* one space
QuickSelectedOnBlankPrompt ==
    \E q \in Queries :
        /\ branch[q] = "quickSelect"
        /\ prompt[q] = <<" ">>
        /\ Len(response[q]) >= 2
        /\ response[q][2].jsonRPCAction.method = "changeQuery"

\* C9: a query whose parsed text is empty (or blank) has ended without a
\* debounce wait, a task or a translate call; when it passes the preconditions
\* (so that the parser runs) its first item shows the source and target the
\* parser returned, and off the quick-select list that item is the whole
\* response.
EmptyTextShowsParsedPair ==
    \A q \in Queries :
        (pc[q] # "idle" /\ Blank(ParsedOf(q).text))
            => /\ pc[q] = "done"
               /\ calls[q] = <<>>
               /\ tasks[q] = <<>>
               /\ PassesPreconditions(settings[q])
                    => /\ Len(response[q]) >= 1
                       /\ response[q][1] =
                            DefaultSelectedItem(ParsedOf(q).sourceLanguageCode,
                                                ParsedOf(q).targetLanguageCode)
                       /\ branch[q] # "quickSelect" => Len(response[q]) = 1

\* C9 witness: the answer to a prompt of only the prefix 'en>ja', showing the
\* parsed target and not the configured one
ShowedPrefixOnlyPair ==
    \E q \in Queries :
        /\ pc[q] = "done"
        /\ prompt[q] = EN \o <<">">> \o JA
        /\ settings[q].targetLanguageCode = ZH
        /\ response[q] = <<DefaultSelectedItem(EN, JA)>>

\* C10: when a precondition fails, the query has ended with exactly one
\* item, the notice of the first failing one in the order no services,
\* unsupported source, unsupported target, and without a task or a translate
\* call.
FirstFailingPreconditionIsNoticed ==
    \A q \in Queries :
        (pc[q] # "idle" /\ ~PassesPreconditions(settings[q]))
            => /\ pc[q] = "done"
               /\ calls[q] = <<>>
               /\ tasks[q] = <<>>
               /\ response[q] =
                     <<IF FailsNoServices(settings[q])
                       THEN NoServicesItem
                       ELSE IF FailsSource(settings[q])
                       THEN UnsupportedSourceItem(settings[q].sourceLanguageCode)
                       ELSE UnsupportedTargetItem(settings[q].targetLanguageCode)>>

\* C10 witness: services configured, source and target both unsupported, and
\* the one notice is the source's
NoticedSourceBeforeTarget ==
    \E q \in Queries :
        /\ pc[q] = "done"
        /\ ~FailsNoServices(settings[q])
        /\ FailsSource(settings[q]) /\ FailsTarget(settings[q])
        /\ response[q] = <<UnsupportedSourceItem(settings[q].sourceLanguageCode)>>

\* C11: a query whose handler has ended has emitted at least one item.
EveryEndedQueryEmitted ==
    \A q \in Queries :
        pc[q] \in {"done", "rejected"} => Len(response[q]) >= 1

\* C12: however the handlers of the queries interleave, createAxiosInstance
\* is called at most once, and every translate call of every query is given
\* the instance that one call made.
OneClientForEveryCall ==
    /\ created <= 1
    /\ \A q \in DOMAIN calls :
          \A k \in 1..Len(calls[q]) :
              /\ calls[q][k].client # NullInstance
              /\ calls[q][k].client = axiosInstance
              /\ \A q2 \in DOMAIN calls :
                    \A k2 \in 1..Len(calls[q2]) :
                        calls[q2][k2].client = calls[q][k].client

\* two queries have their translate calls pending together, the second
\* having arrived while the first was in its debounce or its calls
TwoQueriesAwaitTogether ==
    \E q, q2 \in DOMAIN pc :
        /\ q # q2
        /\ pc[q] = "awaiting" /\ pc[q2] = "awaiting"
        /\ \E k \in 1..Len(tasks[q]) : tasks[q][k].state = "pending"
        /\ \E k \in 1..Len(tasks[q2]) : tasks[q2][k].state = "pending"

\* the handler of q has started its tasks
Dispatched(q) == pc[q] \in {"awaiting", "done", "rejected"} /\ Len(tasks[q]) > 0

\* task i of q is of a registered service that does not support the source
LacksSource(q, i) ==
    /\ IsRegistered(settings[q].services.list[i])
    /\ ServiceCode(settings[q].services.list[i], ParsedOf(q).sourceLanguageCode) = Undefined

\* the sequence s without its i-th element
Without(s, i) == SubSeq(s, 1, i - 1) \o SubSeq(s, i + 1, Len(s))

\* what a call passes to translate, apart from its task's index
Passed(call) == [name |-> call.name, text |-> call.text, source |-> call.source,
                 target |-> call.target, client |-> call.client]

\* the place among the items of the result of task i
SlotOf(q, i) == Len(SelectSeq(SubSeq(tasks[q], 1, i), LAMBDA t : t.state # "null"))

\* C13: a registered service that does not support the source returns at once
\* the one result 'unsupported source language' under its name, without a
\* translate call; the calls of the other services are those they would be
\* given were it not in the list, and in an emitted response its message is
\* the item in its slot while every other item is its own service's result.
UnsupportedSourceIsOneNotice ==
    \A q \in Queries :
        Dispatched(q) =>
            \A i \in 1..Len(tasks[q]) :
                LacksSource(q, i) =>
                    /\ tasks[q][i] = Task("value", settings[q].services.list[i],
                                          MessageResult("unsupportedSourceLanguage"))
                    /\ \A k \in 1..Len(calls[q]) : calls[q][k].index # i
                    /\ LET p == ParsedOf(q)
                           alone == StartTasks(Without(settings[q].services.list, i), 1,
                                               p.sourceLanguageCode,
                                               [tasks |-> <<>>,
                                                target |-> p.targetLanguageCode,
                                                calls |-> <<>>],
                                               p.text, axiosInstance)
                       IN  [k \in 1..Len(calls[q]) |-> Passed(calls[q][k])]
                               = [k \in 1..Len(alone.calls) |-> Passed(alone.calls[k])]
                    /\ branch[q] = "translated" =>
                          /\ Len(response[q]) = Len(RegisteredTasks(q))
                          /\ response[q][SlotOf(q, i)].name = settings[q].services.list[i]
                          /\ response[q][SlotOf(q, i)].result
                                 = MessageResult("unsupportedSourceLanguage")
                          /\ \A j \in 1..Len(tasks[q]) :
                                tasks[q][j].state = "fulfilled" =>
                                    /\ response[q][SlotOf(q, j)].name = tasks[q][j].name
                                    /\ response[q][SlotOf(q, j)].result
                                           = Translation(CallOf(q, j).name, CallOf(q, j).text,
                                                         CallOf(q, j).source, CallOf(q, j).target)

\* C13 witness: a response of two items, the notice of a service that lacks
\* the source beside the translation of one that has it
NoticeBesideTranslation ==
    \E q \in Queries :
        /\ branch[q] = "translated"
        /\ Len(response[q]) = 2
        /\ \E i \in 1..Len(tasks[q]) : LacksSource(q, i)
        /\ \E j \in 1..Len(tasks[q]) : tasks[q][j].state = "fulfilled"

\* C14: a configured name the registry does not hold starts no call and gives
\* no result, and fails no query: a dispatched query whose handler has ended
\* with no translate call failed has emitted one item for each configured name
\* the registry holds, in the order of the configured list, and a handler ends
\* by an error only when a translate call failed.
UnregisteredNamesAreSkipped ==
    \A q \in Queries :
        Dispatched(q) =>
            /\ \A i \in 1..Len(tasks[q]) :
                  ~IsRegistered(settings[q].services.list[i]) =>
                      /\ tasks[q][i].state = "null"
                      /\ \A k \in 1..Len(calls[q]) : calls[q][k].index # i
            /\ pc[q] = "rejected" => \E i \in 1..Len(tasks[q]) : tasks[q][i].state = "rejected"
            /\ (/\ pc[q] # "awaiting"
                /\ \A i \in 1..Len(tasks[q]) : tasks[q][i].state # "rejected") =>
                  LET found == SelectSeq(settings[q].services.list, IsRegistered)
                  IN  /\ pc[q] = "done"
                      /\ Len(response[q]) = Len(found)
                      /\ [k \in 1..Len(response[q]) |-> response[q][k].name] = found

\* C14 witness: a response of one item for a list of two names, the first of
\* them unknown to the registry
RespondedWithoutUnknownName ==
    \E q \in Queries :
        /\ branch[q] = "translated"
        /\ Len(settings[q].services.list) = 2
        /\ ~IsRegistered(settings[q].services.list[1])
        /\ Len(response[q]) = 1
        /\ response[q][1].name = settings[q].services.list[2]

\* C15: a service that supports the target the query resolved to (a target
\* other than 'auto') is called with that target, whatever the services before
\* it in the list support.
SupportedTargetIsPassed ==
    \A q \in Queries :
        \A k \in 1..Len(calls[q]) :
            LET original == ParsedOf(q).targetLanguageCode
            IN  (original # AUTO /\ ServiceCode(calls[q][k].name, original) # Undefined)
                    => /\ calls[q][k].targetLanguageCode = original
                       /\ calls[q][k].target = ServiceCode(calls[q][k].name, original)

\* query q has been handled, passed the preconditions and has a text to translate
DueForTranslation(q) ==
    /\ pc[q] # "idle"
    /\ PassesPreconditions(settings[q])
    /\ ~Blank(ParsedOf(q).text)

\* a translate call of q has been issued for every configured service that
\* is registered and supports the source
CallsIssued(q) ==
    \A i \in 1..Len(settings[q].services.list) :
        (/\ IsRegistered(settings[q].services.list[i])
         /\ ServiceCode(settings[q].services.list[i], ParsedOf(q).sourceLanguageCode) # Undefined)
            => \E k \in 1..Len(calls[q]) :
                  /\ calls[q][k].index = i
                  /\ calls[q][k].name = settings[q].services.list[i]
                  /\ calls[q][k].text = ParsedOf(q).text

\* a query waiting in its debounce has issued no call
NoCallInDebounce ==
    \A q \in DOMAIN pc :
        pc[q] \in {"idle", "debounce"} => calls[q] = <<>> /\ tasks[q] = <<>>

\* a step leaves a query in flight where it stands or moves it on along its
\* own handler, and the arrival of a query changes nothing of another one
NoStepCancels ==
    \A q \in DOMAIN pc :
        /\ pc[q] = "debounce" => pc'[q] \in {"debounce", "awaiting"}
        /\ pc[q] = "awaiting" => pc'[q] \in {"awaiting", "done", "rejected"}
        /\ pc[q] # "idle" => \A k \in 1..Len(calls[q]) :
                                 Len(calls'[q]) >= k /\ calls'[q][k] = calls[q][k]
        /\ \A q2 \in DOMAIN pc \ {q} :
              (pc[q2] = "idle" /\ pc'[q2] # "idle")
                  => /\ pc'[q] = pc[q]
                     /\ tasks'[q] = tasks[q]
                     /\ calls'[q] = calls[q]
                     /\ response'[q] = response[q]

\* C16: no translate call of a query is issued while the query waits in its
\* debounce; no query in flight is cancelled or altered by the arrival of
\* another; and every query that passed the preconditions with a text to
\* translate comes to issue its own call for every registered service that
\* supports the source.
EveryQueryRunsToItsCalls ==
    /\ []NoCallInDebounce
    /\ [][NoStepCancels]_vars
    /\ \A q \in ConcurrentQueries : DueForTranslation(q) ~> CallsIssued(q)

\* C16 witness: a query still waits in its debounce while the calls of another
\* are pending
DebounceBesidePendingCalls ==
    \E q, q2 \in DOMAIN pc :
        /\ pc[q] = "debounce"
        /\ DueForTranslation(q)
        /\ pc[q2] = "awaiting"
        /\ \E k \in 1..Len(tasks[q2]) : tasks[q2][k].state = "pending"

\* the value of the shared target when the task of names[i] starts: the
\* resolved target, rewritten in list order by every earlier service that
\* supports the source and not the target it found
RECURSIVE TargetFoundBy(_, _, _, _, _)
TargetFoundBy(names, i, source, target, text) ==
    IF i = 1
    THEN target
    ELSE LET found == TargetFoundBy(names, i - 1, source, target, text)
             n == names[i - 1]
         IN  IF /\ n \in DOMAIN servicesData
                /\ source \in servicesData[n]
                /\ (found = AUTO \/ found \notin servicesData[n])
             THEN (IF HasCJK(text) THEN EN ELSE ZH)
             ELSE found

\* C17: from the start of the tasks on and through every order of completion,
\* the target of each call is the one fixed by the order of the service list,
\* the services' language maps, the resolved target and the text alone: the
\* shared target as the services before it in the list left it, replaced by
\* the fallback when the called service does not support it; and the shared
\* target keeps the value the last task left.
TargetsFixedAtLaunch ==
    \A q \in Queries :
        Dispatched(q) =>
            LET p == ParsedOf(q)
                names == settings[q].services.list
                left(i) == TargetFoundBy(names, i + 1, p.sourceLanguageCode,
                                         p.targetLanguageCode, p.text)
            IN  /\ \A k \in 1..Len(calls[q]) :
                      /\ calls[q][k].targetLanguageCode = left(calls[q][k].index)
                      /\ calls[q][k].target
                             = ServiceCode(calls[q][k].name, left(calls[q][k].index))
                /\ locals[q].targetLanguageCode = left(Len(names))

\* C17 witness: the first service replaced the resolved target, the second was
\* called with the replacement, and the second call completed before the first
LaterServiceGotReplacedTarget ==
    \E q \in Queries :
        /\ Dispatched(q)
        /\ Len(calls[q]) = 2
        /\ settled[q] = <<2, 1>>
        /\ calls[q][1].targetLanguageCode # ParsedOf(q).targetLanguageCode
        /\ calls[q][2].targetLanguageCode = calls[q][1].targetLanguageCode
        /\ ServiceCode(calls[q][2].name, ParsedOf(q).targetLanguageCode) # Undefined

\* C18: every translate call is passed a source code and a target code that
\* are entries of the called service's languagesMap.
CallsPassDefinedCodes ==
    \A q \in Queries :
        \A k \in 1..Len(calls[q]) :
            /\ calls[q][k].source # Undefined
            /\ calls[q][k].target # Undefined

\* C19: in an emitted response, the item of every translation names as its
\* target the target code passed in that service's translate call.
SubtitleNamesPassedTarget ==
    \A q \in Queries :
        branch[q] = "translated" =>
            \A j \in 1..Len(tasks[q]) :
                tasks[q][j].state = "fulfilled" =>
                    /\ response[q][SlotOf(q, j)].result.kind = "translation"
                    /\ response[q][SlotOf(q, j)].target = CallOf(q, j).targetLanguageCode

\* C20: each suggestion of a quick-select list rewrites the query to the
\* trigger keyword, a space, the configured pair string and a space, and the
\* prompt of that query (the pair string and a space) is parsed to the
\* suggestion's source and target with an empty text, so that its handler
\* returns without a debounce.
QuickSelectRoundTrips ==
    \A q \in Queries :
        branch[q] = "quickSelect" =>
            LET st == settings[q]
                vp == validPairs(st.languagePairs)
            IN  /\ Len(response[q]) = Len(vp) + 1
                /\ \A k \in 1..Len(vp) :
                      LET reissued == vp[k] \o <<" ">>
                          r == parsePrompt(reissued, st.sourceLanguageCode,
                                           st.targetLanguageCode)
                      IN  /\ response[q][k + 1].jsonRPCAction.method = "changeQuery"
                          /\ response[q][k + 1].jsonRPCAction.query
                                 = st.triggerKeyword \o <<" ">> \o reissued
                          /\ r.sourceLanguageCode = response[q][k + 1].source
                          /\ r.targetLanguageCode = response[q][k + 1].target
                          /\ r.sourceLanguageCode = PairFields(vp[k]).source
                          /\ r.targetLanguageCode = PairFields(vp[k]).target
                          /\ IsEmptyText(r.text)
                          /\ HandleQuery(reissued, st).pc = "done"

====
